---- MODULE Spec2Model ----
(***************************************************************************)
(* benchmark-suite/analyze_results.py: BenchmarkAnalyzer and main().       *)
(*                                                                         *)
(* Numbers read from the results file are integers.  Python's `/` on two   *)
(* ints and `float * int` produce IEEE-754 doubles; they are modelled bit  *)
(* for bit (53-bit significand, round to nearest, ties to even).  The      *)
(* magnitudes that occur stay far from overflow and from the subnormals.   *)
(* A value of Python's Optional type (None or a value) is a sequence of    *)
(* length 0 or 1.                                                          *)
(***************************************************************************)
EXTENDS Integers, Sequences, FiniteSets, TLC

VARIABLES pc, argv, file, sharedmem, with_mtls, comparisons, scores,
          stdout, charts, csv

vars == <<pc, argv, file, sharedmem, with_mtls, comparisons, scores,
          stdout, charts, csv>>

\* ------------------------------------------------------------------ bounds
\* metric values in a results file range over -MaxNeg..MaxVal, and the two
\* values of the latency scenario
MaxVal == 4
MaxNeg == 1
\* the metrics dicts of the two records of a scoring input hold at most
\* this many different keys
MaxMetrics == 2

\* ------------------------------------------------- IEEE-754 double arithmetic
\* significand width of a Python float
MantBits == 53
\* a natural number of any size is a sequence of digits of LimbBits bits each,
\* least significant first, the last digit not 0 (zero is <<>>)
LimbBits == 18

Abs(n) == IF n < 0 THEN 0 - n ELSE n
Sgn(n) == IF n < 0 THEN 0 - 1 ELSE IF n > 0 THEN 1 ELSE 0

RECURSIVE Pow2(_)
Pow2(k) == IF k = 0 THEN 1 ELSE 2 * Pow2(k - 1)

Base == Pow2(LimbBits)

\* the number of bits of a natural number below 2^31
RECURSIVE BitLenSmall(_)
BitLenSmall(n) == IF n = 0 THEN 0 ELSE 1 + BitLenSmall(n \div 2)

RECURSIVE NatLimbs(_)
NatLimbs(n) == IF n = 0 THEN <<>> ELSE <<n % Base>> \o NatLimbs(n \div Base)

Limb(N, i) == IF i \in 1..Len(N) THEN N[i] ELSE 0

RECURSIVE Trim(_)
Trim(N) == IF N = <<>> \/ N[Len(N)] # 0 THEN N ELSE Trim(SubSeq(N, 1, Len(N) - 1))

BitLen(N) ==
    IF N = <<>> THEN 0 ELSE LimbBits * (Len(N) - 1) + BitLenSmall(N[Len(N)])

\* bit i of N, bit 0 the least significant
Bit(N, i) == (Limb(N, (i \div LimbBits) + 1) \div Pow2(i % LimbBits)) % 2

\* N \div 2^s
ShiftRight(N, s) ==
    LET q  == s \div LimbBits
        lo == Pow2(s % LimbBits)
        hi == Base \div lo
    IN  Trim([i \in 1..(Len(N) - q) |->
                (Limb(N, i + q) \div lo) + (Limb(N, i + q + 1) % lo) * hi])

\* N * 2^s
ShiftLeft(N, s) ==
    LET q  == s \div LimbBits
        lo == Pow2(s % LimbBits)
        hi == Base \div lo
    IN  Trim([i \in 1..(Len(N) + q + 1) |->
                (Limb(N, i - q) % hi) * lo + (Limb(N, i - q - 1) \div hi)])

\* N % 2^s = 0
LowBitsZero(N, s) ==
    /\ \A i \in 1..(s \div LimbBits) : Limb(N, i) = 0
    /\ Limb(N, (s \div LimbBits) + 1) % Pow2(s % LimbBits) = 0

\* A + B + carry, from digit i on
RECURSIVE AddFrom(_, _, _, _)
AddFrom(A, B, i, carry) ==
    IF i > Len(A) /\ i > Len(B) THEN NatLimbs(carry)
    ELSE LET t == Limb(A, i) + Limb(B, i) + carry
         IN  <<t % Base>> \o AddFrom(A, B, i + 1, t \div Base)

Add(A, B) == AddFrom(A, B, 1, 0)

\* N * k + carry from digit i on, for a natural k below 2^12
RECURSIVE MulSmallFrom(_, _, _, _)
MulSmallFrom(N, k, i, carry) ==
    IF i > Len(N) THEN NatLimbs(carry)
    ELSE LET t == N[i] * k + carry
         IN  <<t % Base>> \o MulSmallFrom(N, k, i + 1, t \div Base)

MulSmall(N, k) == IF k = 0 THEN <<>> ELSE MulSmallFrom(N, k, 1, 0)

\* A double is sign * mant * 2^exp with mant of exactly MantBits bits; zero is
\* FZero (0.0 and -0.0 compare equal).
FZero == [sign |-> 0, mant |-> <<>>, exp |-> 0]

\* sign * N * 2^exp, plus a non-zero tail below bit 0 when sticky, rounded to
\* the nearest double, ties to even
RoundBits(sign, N, exp, sticky) ==
    LET n == BitLen(N) IN
    IF n = 0 THEN FZero
    ELSE IF n <= MantBits
         THEN [sign |-> sign, mant |-> ShiftLeft(N, MantBits - n),
               exp |-> exp - (MantBits - n)]
         ELSE LET s    == n - MantBits
                  kept == ShiftRight(N, s)
                  half == Bit(N, s - 1) = 1
                  rest == sticky \/ ~LowBitsZero(N, s - 1)
                  up   == half /\ (rest \/ Bit(kept, 0) = 1)
                  inc  == IF up THEN Add(kept, <<1>>) ELSE kept
              IN  IF BitLen(inc) > MantBits
                  THEN [sign |-> sign, mant |-> ShiftRight(inc, 1),
                        exp |-> exp + s + 1]
                  ELSE [sign |-> sign, mant |-> inc, exp |-> exp + s]

\* k more quotient digits of r/d (r < d < 2^13), below the digits acc, and
\* the remainder
RECURSIVE DivLimbs(_, _, _, _)
DivLimbs(r, d, k, acc) ==
    IF k = 0 THEN [limbs |-> acc, rem |-> r]
    ELSE DivLimbs((r * Base) % d, d, k - 1, <<(r * Base) \div d>> \o acc)

\* least t with a * 2^t >= b
RECURSIVE Scale(_, _)
Scale(a, b) == IF a >= b THEN 0 ELSE 1 + Scale(2 * a, b)

\* int / int: the correctly rounded double of n/d, d # 0
IntDiv(n, d) ==
    IF n = 0 THEN FZero
    ELSE LET a  == Abs(n)
             b  == Abs(d)
             t  == Scale(a, b)
             as == a * Pow2(t)
             q  == DivLimbs(as % b, b, 3, NatLimbs(as \div b))
         IN  RoundBits(Sgn(n) * Sgn(d), q.limbs, 0 - 3 * LimbBits - t, q.rem # 0)

\* float * int, for a small int k (which converts exactly)
FMulInt(x, k) ==
    RoundBits(x.sign * Sgn(k), MulSmall(x.mant, Abs(k)), x.exp, FALSE)

\* ------------------------------------------------------------ the analyzer
P2P == "p2p-comm"
MTLS == "mtls-comm"

\* the metrics generate_comparison_table compares, in its order, each with
\* the higher_is_better argument it passes
MetricCalls == <<
    [metric |-> "votes_per_second",            higher_is_better |-> TRUE],
    [metric |-> "messages_per_second",         higher_is_better |-> TRUE],
    [metric |-> "bytes_per_second",            higher_is_better |-> TRUE],
    [metric |-> "latency_p50",                 higher_is_better |-> FALSE],
    [metric |-> "latency_p95",                 higher_is_better |-> FALSE],
    [metric |-> "latency_p99",                 higher_is_better |-> FALSE],
    [metric |-> "latency_mean",                higher_is_better |-> FALSE],
    [metric |-> "cpu_usage_percent",           higher_is_better |-> FALSE],
    [metric |-> "memory_usage_mb",             higher_is_better |-> FALSE],
    [metric |-> "tls_handshake_time_us",       higher_is_better |-> FALSE],
    [metric |-> "cert_validation_time_us",     higher_is_better |-> FALSE],
    [metric |-> "encryption_overhead_percent", higher_is_better |-> FALSE],
    [metric |-> "delivery_success_rate",       higher_is_better |-> TRUE] >>

MetricNames == {MetricCalls[i].metric : i \in 1..Len(MetricCalls)}

\* dict.get(key, default)
Get(dict, key, default) == IF key \in DOMAIN dict THEN dict[key] ELSE default

\* a lookup that takes the first record, whatever its system
FirstSystemAny(results, system) ==
    IF results = <<>> THEN <<>> ELSE <<Head(results)>>

\* next((r for r in results if r['system'] == system), None)
RECURSIVE FirstSystem(_, _)
FirstSystem(results, system) ==
    IF results = <<>> THEN <<>>
    ELSE IF Head(results).system = system THEN <<Head(results)>>
    ELSE FirstSystem(Tail(results), system)

\* the two directions exchanged
WinnerSwapped(val1, val2, higher_is_better) ==
    IF higher_is_better
    THEN (IF val2 < val1 THEN MTLS ELSE P2P)
    ELSE (IF val2 > val1 THEN MTLS ELSE P2P)

\* non-strict comparisons
WinnerNonStrict(val1, val2, higher_is_better) ==
    IF higher_is_better
    THEN (IF val2 >= val1 THEN MTLS ELSE P2P)
    ELSE (IF val2 <= val1 THEN MTLS ELSE P2P)

\* the winner label of compare_metric
Winner(val1, val2, higher_is_better) ==
    IF higher_is_better
    THEN (IF val2 > val1 THEN MTLS ELSE P2P)
    ELSE (IF val2 < val1 THEN MTLS ELSE P2P)

\* the difference taken the other way round
DiffPercentSwapped(val1, val2) == FMulInt(IntDiv(val1 - val2, val1), 100)

\* diff_percent = ((val2 - val1) / val1) * 100
DiffPercent(val1, val2) == FMulInt(IntDiv(val2 - val1, val1), 100)

\* a default of 1 for a missing metric
MetricValueDefaultOne(record, metric_name) == Get(record.metrics, metric_name, 1)

\* record['metrics'].get(metric_name, 0)
MetricValue(record, metric_name) == Get(record.metrics, metric_name, 0)

\* a zero on either side skips the metric
CompareMetricSkipsZeroB(sm, wm, metric_name, higher_is_better) ==
    IF sm = <<>> \/ wm = <<>> THEN <<>>
    ELSE LET val1 == Get(sm[1].metrics, metric_name, 0)
             val2 == Get(wm[1].metrics, metric_name, 0)
         IN  IF val1 = 0 \/ val2 = 0 THEN <<>>
             ELSE << [metric       |-> metric_name,
                      sharedmem    |-> val1,
                      with_mtls    |-> val2,
                      diff_percent |-> FMulInt(IntDiv(val2 - val1, val1), 100),
                      winner       |-> IF higher_is_better
                                       THEN (IF val2 > val1 THEN MTLS ELSE P2P)
                                       ELSE (IF val2 < val1 THEN MTLS ELSE P2P)] >>

\* compare_metric: None (<<>>) or one comparison
CompareMetric(sm, wm, metric_name, higher_is_better) ==
    IF sm = <<>> \/ wm = <<>> THEN <<>>
    ELSE LET val1 == MetricValue(sm[1], metric_name)
             val2 == MetricValue(wm[1], metric_name)
         IN  IF val1 = 0 THEN <<>>
             ELSE << [metric       |-> metric_name,
                      sharedmem    |-> val1,
                      with_mtls    |-> val2,
                      diff_percent |-> DiffPercent(val1, val2),
                      winner       |-> Winner(val1, val2, higher_is_better)] >>

\* generate_comparison_table: the calls in order, the None results dropped
RECURSIVE TableFrom(_, _, _)
TableFrom(sm, wm, i) ==
    IF i > Len(MetricCalls) THEN <<>>
    ELSE CompareMetric(sm, wm, MetricCalls[i].metric,
                       MetricCalls[i].higher_is_better)
         \o TableFrom(sm, wm, i + 1)

GenerateComparisonTable(sm, wm) == TableFrom(sm, wm, 1)

\* the explicit weight table of calculate_overall_winner
weights == [m \in {"votes_per_second", "messages_per_second", "latency_p50",
                   "latency_p95", "latency_p99", "cpu_usage_percent",
                   "memory_usage_mb", "tls_handshake_time_us",
                   "delivery_success_rate"} |->
            CASE m = "votes_per_second"      -> 10
              [] m = "messages_per_second"   -> 5
              [] m = "latency_p50"           -> 10
              [] m = "latency_p95"           -> 8
              [] m = "latency_p99"           -> 6
              [] m = "cpu_usage_percent"     -> 7
              [] m = "memory_usage_mb"       -> 6
              [] m = "tls_handshake_time_us" -> 4
              [] m = "delivery_success_rate" -> 9]

\* a default weight of 0
WeightDefaultZero(metric) == Get(weights, metric, 0)

\* weight = weights.get(metric, 1)
Weight(metric) == Get(weights, metric, 1)

\* the scoring loop (sharedmem_score and with_mtls_score start at 0)
RECURSIVE ScoreLoop(_, _, _)
ScoreLoop(comps, sharedmem_score, with_mtls_score) ==
    IF comps = <<>>
    THEN [sharedmem_score |-> sharedmem_score, with_mtls_score |-> with_mtls_score]
    ELSE LET weight == Weight(Head(comps).metric)
         IN  IF Head(comps).winner = P2P
             THEN ScoreLoop(Tail(comps), sharedmem_score + weight, with_mtls_score)
             ELSE ScoreLoop(Tail(comps), sharedmem_score, with_mtls_score + weight)

\* the share as a fraction, not a percentage
PercentageUnscaled(score, total_score) ==
    IF total_score > 0 THEN IntDiv(score, total_score) ELSE FZero

\* (score / total_score) * 100 if total_score > 0 else 0
Percentage(score, total_score) ==
    IF total_score > 0 THEN FMulInt(IntDiv(score, total_score), 100) ELSE FZero

\* a non-strict comparison of the scores
OverallWinnerNonStrict(sharedmem_score, with_mtls_score) ==
    IF with_mtls_score >= sharedmem_score THEN MTLS ELSE P2P

\* 'mtls-comm' if with_mtls_score > sharedmem_score else 'p2p-comm'
OverallWinner(sharedmem_score, with_mtls_score) ==
    IF with_mtls_score > sharedmem_score THEN MTLS ELSE P2P

\* calculate_overall_winner on the list generate_comparison_table returned
CalculateOverallWinner(comps) ==
    LET loop            == ScoreLoop(comps, 0, 0)
        sharedmem_score == loop.sharedmem_score
        with_mtls_score == loop.with_mtls_score
        total_score     == sharedmem_score + with_mtls_score
    IN  [sharedmem |-> [score      |-> sharedmem_score,
                        percentage |-> Percentage(sharedmem_score, total_score)],
         with_mtls |-> [score      |-> with_mtls_score,
                        percentage |-> Percentage(with_mtls_score, total_score)],
         winner    |-> OverallWinner(sharedmem_score, with_mtls_score)]

\* plot_comparison_charts: the chart files, in the order they are written; a
\* group with no comparison gets no chart
ChartGroups == <<
    [file |-> "throughput_comparison.png",
     metrics |-> {"votes_per_second", "messages_per_second"}],
    [file |-> "latency_comparison.png",
     metrics |-> {"latency_p50", "latency_p95", "latency_p99"}],
    [file |-> "resource_comparison.png",
     metrics |-> {"cpu_usage_percent", "memory_usage_mb"}] >>

ChartFiles(comps) ==
    LET HasData(g) == \E i \in 1..Len(comps) : comps[i].metric \in g.metrics
        F[i \in 0..Len(ChartGroups)] ==
            IF i = 0 THEN <<>>
            ELSE IF HasData(ChartGroups[i]) THEN Append(F[i - 1], ChartGroups[i].file)
            ELSE F[i - 1]
    IN  F[Len(ChartGroups)]

\* export_to_csv: one row per comparison
CsvRows(comps) ==
    [i \in 1..Len(comps) |->
        <<comps[i].metric, comps[i].sharedmem, comps[i].with_mtls,
          comps[i].diff_percent, comps[i].winner>>]

\* ------------------------------------------------------------ results files
EmptyDict == [k \in {} |-> 0]

\* a value or none, a dict of at most one key
ScenarioValues == {80, 100}
Values == ((0 - MaxNeg)..MaxVal) \cup ScenarioValues
OptValues == {<<>>} \cup {<<v>> : v \in Values}
DictOf(key, opt) == [k \in (IF opt = <<>> THEN {} ELSE {key}) |-> opt[1]]

\* the keys a metrics dict may hold: the known metrics and one unknown to the
\* analyzer
Keys == MetricNames \cup {"unknown_metric"}

Record(system, metrics) == [system |-> system, metrics |-> metrics]

\* the results file made of the P2pComm record with metrics dA, when hasA,
\* and the MtlsComm record with metrics dB, when hasB
FileOf(hasA, dA, hasB, dB) ==
    (IF hasA THEN <<Record("P2pComm", dA)>> ELSE <<>>)
    \o (IF hasB THEN <<Record("MtlsComm", dB)>> ELSE <<>>)

\* how one metric may be reported to a scoring run, as <<subject A's value,
\* subject B's value>>: only B / only A / equal / B larger / B smaller
ScoringCases ==
    { <<(<<>>), <<1>>>>, <<(<<1>>), <<>>>>, <<(<<1>>), <<1>>>>,
      <<(<<1>>), <<2>>>>, <<(<<2>>), <<1>>>> }

\* the metrics dict of subject i (1 or 2), given the case c[k] of every key k
DictOfCases(c, i) ==
    [k \in {x \in DOMAIN c : c[x][i] # <<>>} |-> c[k][i][1]]

\* ------------------------------------------------------------------ main()
ScriptName == "analyze_results.py"
ResultsPath == "results.json"

\* BenchmarkAnalyzer.__init__ on an existing file
Construct ==
    /\ sharedmem' = FirstSystem(file[1], "P2pComm")
    /\ with_mtls' = FirstSystem(file[1], "MtlsComm")

\* the module's imports: matplotlib and numpy may be missing
ImportModules ==
    /\ pc = "import"
    /\ \/ pc' = "main"
       \/ pc' = "import_error"
    /\ UNCHANGED <<argv, file, sharedmem, with_mtls, comparisons, scores,
                   stdout, charts, csv>>

\* main() up to the construction of the analyzer
MainStart ==
    /\ pc = "main"
    /\ IF Len(argv) < 2
       THEN /\ stdout' = Append(stdout, "usage")
            /\ pc' = "exit_1"
            /\ UNCHANGED <<sharedmem, with_mtls>>
       ELSE IF file = <<>>
       THEN /\ stdout' = Append(stdout, "file_not_found")
            /\ pc' = "exit_1"
            /\ UNCHANGED <<sharedmem, with_mtls>>
       ELSE /\ Construct
            /\ pc' = "print_comparison_table"
            /\ UNCHANGED stdout
    /\ UNCHANGED <<argv, file, comparisons, scores, charts, csv>>

PrintComparisonTable ==
    /\ pc = "print_comparison_table"
    /\ comparisons' = <<GenerateComparisonTable(sharedmem, with_mtls)>>
    /\ stdout' = Append(stdout, "comparison_table")
    /\ pc' = "print_overall_summary"
    /\ UNCHANGED <<argv, file, sharedmem, with_mtls, scores, charts, csv>>

PrintOverallSummary ==
    /\ pc = "print_overall_summary"
    /\ LET comps == GenerateComparisonTable(sharedmem, with_mtls)
       IN  /\ comparisons' = <<comps>>
           /\ scores' = <<CalculateOverallWinner(comps)>>
    /\ stdout' = Append(stdout, "overall_summary")
    /\ pc' = "plot_comparison_charts"
    /\ UNCHANGED <<argv, file, sharedmem, with_mtls, charts, csv>>

\* plot_comparison_charts runs to its end
PlotComparisonCharts ==
    /\ pc = "plot_comparison_charts"
    /\ LET comps == GenerateComparisonTable(sharedmem, with_mtls)
       IN  /\ comparisons' = <<comps>>
           /\ charts' = ChartFiles(comps)
    /\ stdout' = Append(stdout, "charts_saved")
    /\ pc' = "export_to_csv"
    /\ UNCHANGED <<argv, file, sharedmem, with_mtls, scores, csv>>

\* no handler: the exception ends main
OnChartExceptionPropagates(out) == [pc |-> "traceback", stdout |-> out]

\* main's `except Exception` around plot_comparison_charts
OnChartException(out) ==
    [pc |-> "export_to_csv", stdout |-> Append(out, "charts_warning")]

\* plot_comparison_charts raises: in mkdir, before the table is generated
\* (n = 0 and no table), or while it plots its n-th chart
PlotComparisonChartsRaises ==
    /\ pc = "plot_comparison_charts"
    /\ LET comps == GenerateComparisonTable(sharedmem, with_mtls)
           files == ChartFiles(comps)
       IN  \/ /\ charts' = <<>>
              /\ UNCHANGED comparisons
           \/ \E n \in 1..Len(files) :
                 /\ charts' = SubSeq(files, 1, n - 1)
                 /\ comparisons' = <<comps>>
    /\ pc' = OnChartException(stdout).pc
    /\ stdout' = OnChartException(stdout).stdout
    /\ UNCHANGED <<argv, file, sharedmem, with_mtls, scores, csv>>

\* export_to_csv and main's last print
ExportToCsv ==
    /\ pc = "export_to_csv"
    /\ LET comps == GenerateComparisonTable(sharedmem, with_mtls)
       IN  /\ comparisons' = <<comps>>
           /\ csv' = <<CsvRows(comps)>>
    /\ stdout' = stdout \o <<"csv_exported", "complete">>
    /\ pc' = "done"
    /\ UNCHANGED <<argv, file, sharedmem, with_mtls, scores, charts>>

NoOutput ==
    /\ comparisons = <<>> /\ scores = <<>> /\ stdout = <<>>
    /\ charts = <<>> /\ csv = <<>>

\* the script is started, on any command line and any file
Init ==
    /\ pc = "import"
    /\ \/ argv = <<ScriptName>> /\ file = <<>>
       \/ argv = <<ScriptName, ResultsPath>> /\ file = <<>>
       \/ /\ argv = <<ScriptName, ResultsPath>>
          \* a file whose records report at most one key, with any value
          /\ \E k \in Keys, a, b \in OptValues, hasA, hasB \in BOOLEAN :
                file = <<FileOf(hasA, DictOf(k, a), hasB, DictOf(k, b))>>
    /\ sharedmem = <<>> /\ with_mtls = <<>>
    /\ NoOutput

Next ==
    \/ ImportModules
    \/ MainStart
    \/ PrintComparisonTable
    \/ PrintOverallSummary
    \/ PlotComparisonCharts
    \/ PlotComparisonChartsRaises
    \/ ExportToCsv

Spec == Init /\ [][Next]_vars

\* ------------------------------------------------ the analyzer used directly
\* calculate_overall_winner()
CallCalculateOverallWinner ==
    /\ pc = "analyzer"
    /\ LET comps == GenerateComparisonTable(sharedmem, with_mtls)
       IN  /\ comparisons' = <<comps>>
           /\ scores' = <<CalculateOverallWinner(comps)>>
    /\ UNCHANGED <<pc, argv, file, sharedmem, with_mtls, stdout, charts, csv>>

\* an analyzer constructed on a file whose records report at most MaxMetrics
\* known metrics between them
InitAnalyzer ==
    /\ pc = "analyzer"
    /\ argv = <<ScriptName, ResultsPath>>
    /\ \E S \in SUBSET MetricNames :
          /\ Cardinality(S) <= MaxMetrics
          /\ \E c \in [S -> ScoringCases], hasA, hasB \in BOOLEAN :
                LET f == FileOf(hasA, DictOfCases(c, 1), hasB, DictOfCases(c, 2))
                IN  /\ file = <<f>>
                    /\ sharedmem = FirstSystem(f, "P2pComm")
                    /\ with_mtls = FirstSystem(f, "MtlsComm")
    /\ NoOutput

NextAnalyzer == CallCalculateOverallWinner

SpecAnalyzer == InitAnalyzer /\ [][NextAnalyzer]_vars

\* ------------------------------------------------------------------ claims
\* the polarity of every known metric, by category
HigherIsBetterMetrics ==
    {"votes_per_second", "messages_per_second", "bytes_per_second",
     "delivery_success_rate"}
LowerIsBetterMetrics ==
    {"latency_p50", "latency_p95", "latency_p99", "latency_mean",
     "cpu_usage_percent", "memory_usage_mb", "tls_handshake_time_us",
     "cert_validation_time_us", "encryption_overhead_percent"}
KnownMetrics == HigherIsBetterMetrics \cup LowerIsBetterMetrics

HasTable == comparisons # <<>>
HasVerdict == scores # <<>>
BothSubjects == sharedmem # <<>> /\ with_mtls # <<>>
Comps == comparisons[1]
Verdict == scores[1]
ScoreA == Verdict.sharedmem.score
ScoreB == Verdict.with_mtls.score
ValueA(m) == Get(sharedmem[1].metrics, m, 0)
ValueB(m) == Get(with_mtls[1].metrics, m, 0)
ReportedByA(m) == m \in DOMAIN sharedmem[1].metrics
ReportedByB(m) == m \in DOMAIN with_mtls[1].metrics
CompsOf(m) == {i \in 1..Len(Comps) : Comps[i].metric = m}

\* double arithmetic the statements need beyond what the analyzer computes
Min(a, b) == IF a < b THEN a ELSE b

\* float(n)
FromInt(n) == RoundBits(Sgn(n), NatLimbs(Abs(n)), 0, FALSE)

\* float + float for two floats that are both >= 0
FAdd(x, y) ==
    IF x.sign = 0 THEN y
    ELSE IF y.sign = 0 THEN x
    ELSE LET e == Min(x.exp, y.exp)
         IN  RoundBits(1, Add(ShiftLeft(x.mant, x.exp - e),
                              ShiftLeft(y.mant, y.exp - e)), e, FALSE)

\* N - 1, for N > 0
RECURSIVE Pred(_)
Pred(N) == IF Head(N) > 0 THEN Trim(<<Head(N) - 1>> \o Tail(N))
           ELSE <<Base - 1>> \o Pred(Tail(N))

\* the doubles next to a positive double
FSucc(x) == RoundBits(1, Add(x.mant, <<1>>), x.exp, FALSE)
FPred(x) ==
    LET m == Pred(x.mant)
    IN  IF BitLen(m) = MantBits THEN [x EXCEPT !.mant = m]
        ELSE [x EXCEPT !.mant = Add(ShiftLeft(m, 1), <<1>>), !.exp = x.exp - 1]

\* 100.0, 99.99999999999999 and 100.00000000000001
Hundred == FromInt(100)
HundredBelow == FPred(Hundred)
HundredAbove == FSucc(Hundred)
MinusHundred == FromInt(0 - 100)
MinusTwenty == FromInt(0 - 20)

\* the weights of the comparisons `label` won, a metric without an entry in
\* the weight table counting `default`
RECURSIVE WonWeight(_, _, _)
WonWeight(comps, label, default) ==
    IF comps = <<>> THEN 0
    ELSE (IF Head(comps).winner = label
          THEN Get(weights, Head(comps).metric, default) ELSE 0)
         + WonWeight(Tail(comps), label, default)

Unweighted(label) ==
    {i \in 1..Len(Comps) :
        Comps[i].metric \notin DOMAIN weights /\ Comps[i].winner = label}

Without(seq, i) == SubSeq(seq, 1, i - 1) \o SubSeq(seq, i + 1, Len(seq))

\* C1: for a known metric with valueA > 0, when B's value is the better one
\* under the metric's polarity (larger for HigherIsBetter, smaller for
\* LowerIsBetter), the metric's Comparison names 'mtls-comm' the winner.
C1_BetterSubjectBWins ==
    HasTable /\ BothSubjects =>
        \A m \in KnownMetrics :
            ( /\ ValueA(m) > 0
              /\ \/ m \in HigherIsBetterMetrics /\ ValueB(m) > ValueA(m)
                 \/ m \in LowerIsBetterMetrics /\ ValueB(m) < ValueA(m) )
            => /\ CompsOf(m) # {}
               /\ \A i \in CompsOf(m) : Comps[i].winner = MTLS

C1_Witness ==
    /\ HasTable
    /\ \E i \in 1..Len(Comps) :
          /\ Comps[i].metric \in HigherIsBetterMetrics
          /\ Comps[i].sharedmem > 0
          /\ Comps[i].with_mtls > Comps[i].sharedmem
          /\ Comps[i].winner = MTLS

\* C4: when both subjects report the same non-zero value for a known metric,
\* a Comparison is produced for it and its winner is 'p2p-comm'.
C4_TieGoesToSubjectA ==
    HasTable /\ BothSubjects =>
        \A m \in KnownMetrics :
            (ReportedByA(m) /\ ReportedByB(m) /\ ValueA(m) = ValueB(m)
             /\ ValueA(m) # 0)
            => /\ CompsOf(m) # {}
               /\ \A i \in CompsOf(m) : Comps[i].winner = P2P

C4_Witness ==
    /\ HasTable
    /\ \E i \in 1..Len(Comps) :
          /\ Comps[i].metric \in LowerIsBetterMetrics
          /\ Comps[i].sharedmem = Comps[i].with_mtls
          /\ Comps[i].winner = P2P

\* C5: no Comparison has subjectAValue = 0; a known metric whose value for
\* subject A is 0 or absent has no Comparison, no CSV row and no part in the
\* scores.
C5_ZeroForSubjectAExcluded ==
    /\ HasTable => \A i \in 1..Len(Comps) : Comps[i].sharedmem # 0
    /\ BothSubjects =>
          \A m \in KnownMetrics : ValueA(m) = 0 =>
              /\ HasTable => CompsOf(m) = {}
              /\ csv # <<>> => \A r \in 1..Len(csv[1]) : csv[1][r][1] # m
    /\ HasVerdict /\ BothSubjects /\ (\A m \in KnownMetrics : ValueA(m) = 0)
          => ScoreA = 0 /\ ScoreB = 0

C5_Witness ==
    /\ BothSubjects /\ HasTable /\ HasVerdict /\ csv # <<>>
    /\ \E m \in KnownMetrics :
          /\ ReportedByA(m) /\ ValueA(m) = 0
          /\ ValueB(m) > 0
          /\ CompsOf(m) = {}

\* C8 (as amended): every Comparison stores the double that (valueB - valueA)
\* / valueA * 100 evaluates to on the two values stored in it.
C8_DiffPercentRecomputed ==
    HasTable =>
        \A i \in 1..Len(Comps) :
            Comps[i].diff_percent =
                FMulInt(IntDiv(Comps[i].with_mtls - Comps[i].sharedmem,
                               Comps[i].sharedmem), 100)

\* C8 as stated: the recomputation, and percentDifference * valueA =
\* (valueB - valueA) * 100
C8_ProductForm ==
    /\ C8_DiffPercentRecomputed
    /\ HasTable =>
          \A i \in 1..Len(Comps) :
              FMulInt(Comps[i].diff_percent, Comps[i].sharedmem) =
                  FromInt((Comps[i].with_mtls - Comps[i].sharedmem) * 100)

C8_Witness ==
    /\ HasTable
    /\ \E i \in 1..Len(Comps) :
          /\ Comps[i].metric = "latency_p50"
          /\ Comps[i].sharedmem = 100 /\ Comps[i].with_mtls = 80
          /\ Comps[i].diff_percent = MinusTwenty
          /\ Comps[i].winner = MTLS

\* C9: an exception in plot_comparison_charts leaves a warning and moves main
\* on to the CSV export, never out of main; the table and the summary are
\* printed, in that order, before the charts start; and the step main takes
\* from the CSV export writes the CSV and completes the run.
C9_ChartFaultDoesNotAbort ==
    /\ [][PlotComparisonChartsRaises =>
            /\ pc' = "export_to_csv"
            /\ stdout' = Append(stdout, "charts_warning")]_vars
    /\ [][pc = "plot_comparison_charts" => pc' = "export_to_csv"]_vars
    /\ [][pc = "export_to_csv" =>
            /\ pc' = "done"
            /\ csv' # <<>>
            /\ stdout' = stdout \o <<"csv_exported", "complete">>]_vars
    /\ [](pc = "plot_comparison_charts" =>
            /\ stdout = <<"comparison_table", "overall_summary">>
            /\ HasTable /\ HasVerdict)
    /\ [](pc \in {"export_to_csv", "done"} =>
            /\ Len(stdout) >= 3
            /\ SubSeq(stdout, 1, 2) = <<"comparison_table", "overall_summary">>
            /\ stdout[3] \in {"charts_saved", "charts_warning"})

C9_Witness ==
    /\ pc = "done"
    /\ csv # <<>>
    /\ stdout = <<"comparison_table", "overall_summary", "charts_warning",
                  "csv_exported", "complete">>

\* C2 as stated: only the metrics with an entry in the weight table change the
\* scores.
C2_OnlyExplicitWeightsScore ==
    HasVerdict =>
        /\ ScoreA = WonWeight(Comps, P2P, 0)
        /\ ScoreB = WonWeight(Comps, MTLS, 0)

\* C2 (as amended): a Comparison for a metric without an entry in the weight
\* table adds exactly 1 to its winner's score, on top of the explicit weights.
C2_UnweightedMetricsScoreOne ==
    HasVerdict =>
        /\ ScoreA = WonWeight(Comps, P2P, 0) + Cardinality(Unweighted(P2P))
        /\ ScoreB = WonWeight(Comps, MTLS, 0) + Cardinality(Unweighted(MTLS))

C2_Witness ==
    /\ HasVerdict
    /\ Unweighted(P2P) # {} /\ Unweighted(MTLS) # {}
    /\ ScoreA = 1 /\ ScoreB = 1

\* C3: the overall winner is 'mtls-comm' exactly when scoreB > scoreA and
\* 'p2p-comm' otherwise, so equal scores go to 'p2p-comm'.
C3_OverallWinnerStrict ==
    HasVerdict =>
        /\ Verdict.winner = MTLS <=> ScoreB > ScoreA
        /\ Verdict.winner = P2P <=> ScoreB <= ScoreA

C3_Witness ==
    /\ HasVerdict
    /\ ScoreA = ScoreB /\ ScoreA > 0
    /\ Verdict.winner = P2P

\* C6: when the file lacks the record of either subject, the comparison list
\* is empty and the verdict has both scores 0, both percentages 0 and winner
\* 'p2p-comm'.
FileLacksSubject ==
    \/ ~\E i \in 1..Len(file[1]) : file[1][i].system = "P2pComm"
    \/ ~\E i \in 1..Len(file[1]) : file[1][i].system = "MtlsComm"

C6_MissingSubjectGivesEmptyVerdict ==
    HasVerdict /\ FileLacksSubject =>
        /\ comparisons = << <<>> >>
        /\ Verdict = [sharedmem |-> [score |-> 0, percentage |-> FZero],
                      with_mtls |-> [score |-> 0, percentage |-> FZero],
                      winner    |-> P2P]

C6_Witness ==
    /\ HasVerdict
    /\ Len(file[1]) = 1
    /\ \E m \in KnownMetrics : Get(file[1][1].metrics, m, 0) > 0
    /\ comparisons = << <<>> >>
    /\ ScoreA = 0 /\ ScoreB = 0 /\ Verdict.winner = P2P

\* the sum of the weights of all the comparisons
TotalWeight == WonWeight(Comps, P2P, 1) + WonWeight(Comps, MTLS, 1)

PercentageSum ==
    FAdd(Verdict.sharedmem.percentage, Verdict.with_mtls.percentage)

\* C7 as stated: the scores add up to the weights of the comparisons, the
\* percentages add up to 100 when the total is positive, and both are 0
\* when it is 0.
C7_PercentagesSumTo100 ==
    HasVerdict =>
        /\ ScoreA + ScoreB = TotalWeight
        /\ ScoreA + ScoreB > 0 => PercentageSum = Hundred
        /\ ScoreA + ScoreB = 0 =>
              /\ Verdict.sharedmem.percentage = FZero
              /\ Verdict.with_mtls.percentage = FZero

\* C7 (as amended): the same, with the sum of the two percentages 100 or one
\* of the two doubles next to 100.
C7_PercentagesSumNear100 ==
    HasVerdict =>
        /\ ScoreA >= 0 /\ ScoreB >= 0
        /\ ScoreA + ScoreB = TotalWeight
        /\ ScoreA + ScoreB > 0 =>
              PercentageSum \in {HundredBelow, Hundred, HundredAbove}
        /\ ScoreA + ScoreB = 0 =>
              /\ Verdict.sharedmem.percentage = FZero
              /\ Verdict.with_mtls.percentage = FZero

C7_Witness ==
    /\ HasVerdict
    /\ ScoreA > 0 /\ ScoreB > 0
    /\ ScoreA # ScoreB
    /\ PercentageSum = Hundred

\* C10: a metric subject A reports with a positive value and subject B does
\* not report gets one Comparison, with subjectBValue 0 and percentDifference
\* -100; 'mtls-comm' wins it when lower is better, 'p2p-comm' when higher is
\* better, and its weight is part of the winner's score.  A metric subject A
\* does not report gets no Comparison.
C10_AbsentOnOneSide ==
    HasVerdict /\ BothSubjects =>
        \A m \in KnownMetrics :
            /\ ~ReportedByA(m) => CompsOf(m) = {}
            /\ (ReportedByA(m) /\ ValueA(m) > 0 /\ ~ReportedByB(m)) =>
                  /\ Cardinality(CompsOf(m)) = 1
                  /\ \A i \in CompsOf(m) :
                        /\ Comps[i].with_mtls = 0
                        /\ Comps[i].diff_percent = MinusHundred
                        /\ m \in LowerIsBetterMetrics =>
                              /\ Comps[i].winner = MTLS
                              /\ ScoreB = Get(weights, m, 1)
                                    + WonWeight(Without(Comps, i), MTLS, 1)
                        /\ m \in HigherIsBetterMetrics =>
                              /\ Comps[i].winner = P2P
                              /\ ScoreA = Get(weights, m, 1)
                                    + WonWeight(Without(Comps, i), P2P, 1)

C10_Witness ==
    /\ HasVerdict /\ BothSubjects
    /\ \E m \in LowerIsBetterMetrics, h \in HigherIsBetterMetrics :
          /\ ReportedByA(m) /\ ValueA(m) > 0 /\ ~ReportedByB(m)
          /\ ~ReportedByA(h) /\ ReportedByB(h)
          /\ CompsOf(h) = {}
          /\ \E i \in CompsOf(m) : Comps[i].winner = MTLS
          /\ ScoreB = Get(weights, m, 1) /\ ScoreA = 0
====
